---- MODULE Spec2Model ----
(***************************************************************************)
(* collect-rs: the frequency-counting containers.                          *)
(*                                                                         *)
(* FrequencyMap<K> (src/src/containers/frequency_map.rs) is modelled as a  *)
(* record [map, total]: `map` is the HashMap<K, isize> as a function whose *)
(* DOMAIN is the set of keys that have a record, `total` the cached sum.   *)
(* Every method is an operator from the instance (and its arguments) to    *)
(* the instance afterwards and the value returned; every action applies    *)
(* one method to the instance held in the variables.                       *)
(*                                                                         *)
(* Spec    : the calls on one instance, each traced with its arguments,    *)
(*           the instance before it and the value it returned.             *)
(* SpecAll : every mutating call, append() included, with only the name of *)
(*           the last call kept.                                           *)
(* SpecFrom: the construction of an instance from an array or an iterator  *)
(*           of keys, or from an array of (key, count) pairs.              *)
(* SpecCap : insert and push together with reserve, shrink_to and          *)
(*           shrink_to_fit, the capacity of the map being followed.        *)
(*                                                                         *)
(* UnicodePointMap (src/src/containers/unicode_point_map.rs) is the record *)
(* [vec, map, len, total]: `vec` the dense tier as a function from the     *)
(* indices 0 .. ceiling-1, `map` the sparse tier as a function whose       *)
(* DOMAIN is the set of chars that have an entry.                          *)
(*                                                                         *)
(* SpecU   : new(ceiling) and every mutating call on one UnicodePointMap.  *)
(* SpecNew : new(ceiling) and default(), with insert() and clear() between *)
(*           them.                                                         *)
(* SpecBuild: SpecNew together with the From and FromIterator impls.       *)
(* SpecBoth: the same calls made on a FrequencyMap<char> and on a          *)
(*           UnicodePointMap, side by side.                                *)
(* SpecIter: SpecU together with iter() and the calls of next() on the     *)
(*           iterator, during whose life the instance is borrowed.         *)
(* SpecIterFair: SpecIter in which next() goes on being called.            *)
(* SpecWide: new(ceiling) and insert() with counts up to the limits of     *)
(*           isize, which is given IsizeBits bits.                         *)
(* SpecTwin: two UnicodePointMaps built with different ceilings and given  *)
(*           the same mutating calls.                                      *)
(***************************************************************************)
EXTENDS Integers, Sequences, FiniteSets, TLC

\* ---------------------------------------------------------------- bounds

\* Number of distinct keys K the callers use.
NumKeys == 2
\* Largest magnitude of a stored count and of a count argument.
MaxCount == 2
\* Largest number of records of the map handed to append().
MaxOtherLen == 1
\* Largest length N of the arrays and iterators an instance is built from.
MaxArrayLen == 3
\* Largest capacity the HashMap of an instance is given.
MaxCapacity == 3
\* Number of distinct code points the callers of UnicodePointMap use.
NumChars == 2
\* Largest value the callers let UnicodePointMap::len reach.
MaxLen == 3
\* Largest number of times next() is called on an iterator to return None.
MaxNones == 2
\* Number of bits of isize, the type of a count. On the x86_64 target isize
\* is as wide as i64, the type of UnicodePointMap::total, which is given
\* the same number of bits.
IsizeBits == 4

\* constants::MAXIMUM_VALID_CHAR_VALUE
MAXIMUM_VALID_CHAR_VALUE == 1114111
\* constants::DEFAULT_CONTIGUOUS_CEILING with and without debug assertions
DEFAULT_CONTIGUOUS_CEILING_debug == 128
DEFAULT_CONTIGUOUS_CEILING_release == 512

Keys == 1..NumKeys
Counts == (-MaxCount)..MaxCount
\* A char is its scalar value.
Chars == 0..(NumChars - 1)

\* isize::MIN and isize::MAX, and the values of isize and of i64
ISIZE_MIN == -(2^(IsizeBits - 1))
ISIZE_MAX == 2^(IsizeBits - 1) - 1
Isize == ISIZE_MIN..ISIZE_MAX
I64_MIN == ISIZE_MIN
I64_MAX == ISIZE_MAX
I64 == I64_MIN..I64_MAX
\* The counts at the limits of isize and around 0.
EdgeCounts == {ISIZE_MIN, -1, 0, 1, ISIZE_MAX}

VARIABLES
    map,      \* FrequencyMap::map of the instance, a function Keys' -> Int
    total,    \* FrequencyMap::total of the instance
    ret,      \* the value the last call returned
    last,     \* the last call: its name, arguments and the instance before
    other,    \* the instance passed as `other` to append(), after the call
    pending,  \* the push_n(k, n) on an absent k that awaits push_n(k, -n)
    input,    \* the array or iterator the instance was built from
    capacity, \* HashMap::capacity() of the instance's map (followed in SpecCap)
    upm,      \* the UnicodePointMap instance: its vec, map, len and total
    ulast,    \* the last call on the UnicodePointMap instance
    uret,     \* the value that call returned
    uiter,    \* the UnicodePointMapIter borrowed from the instance, if any
    yielded,  \* the pairs that iterator has yielded, in order
    nones,    \* how many calls of next() on that iterator have returned None
    twin      \* a second UnicodePointMap given the same calls (SpecTwin),
              \* with the value its last call returned

vars == <<map, total, ret, last, other, pending, input, capacity,
          upm, ulast, uret, uiter, yielded, nones, twin>>

Maximum(a, b) == IF a >= b THEN a ELSE b
Minimum(a, b) == IF a <= b THEN a ELSE b

\* `a - b` on isize: the difference where it is a value of isize, and its
\* two's-complement wrap-around where it is not (what a build without
\* overflow checks computes; a build with them panics instead).
wrapping_sub(a, b) == ((a - b - ISIZE_MIN) % (2^IsizeBits)) + ISIZE_MIN

\* `a - b` overflows isize.
SubOverflows(a, b) == (a - b) \notin Isize

\* `a += b` on i64: the sum where it is a value of i64, and its wrap-around
\* where it is not (a build with overflow checks panics instead).
wrapping_add(a, b) == ((a + b - I64_MIN) % (I64_MAX - I64_MIN + 1)) + I64_MIN

\* `a += b` overflows i64.
AddOverflows(a, b) == (a + b) \notin I64

\* ------------------------------------------------- std::collections::HashMap

EmptyMap == [k \in {} |-> 0]

\* HashMap::remove
MapRemove(m, key) == [k \in (DOMAIN m) \ {key} |-> m[k]]

\* HashMap::insert, and assignment through get_mut() / entry()
MapPut(m, key, v) == [k \in (DOMAIN m) \cup {key} |-> IF k = key THEN v ELSE m[k]]

RECURSIVE SumOver(_, _)
SumOver(m, S) ==
    IF S = {} THEN 0
    ELSE LET k == CHOOSE x \in S : TRUE
         IN  m[k] + SumOver(m, S \ {k})

\* The sum of the counts of all records of a HashMap.
SumCounts(m) == SumOver(m, DOMAIN m)

\* The orders in which a HashMap may be iterated: the permutations of its keys.
Orders(m) ==
    LET n == Cardinality(DOMAIN m)
    IN  {s \in [1..n -> DOMAIN m] : \A i, j \in 1..n : i # j => s[i] # s[j]}

\* ------------------------------------------------------------ return values

None == [tag |-> "None", key |-> 0, val |-> 0, items |-> <<>>]
Unit == [tag |-> "Unit", key |-> 0, val |-> 0, items |-> <<>>]
Some(v) == [tag |-> "Some", key |-> 0, val |-> v, items |-> <<>>]
SomeEntry(k, v) == [tag |-> "SomeEntry", key |-> k, val |-> v, items |-> <<>>]
Yielded(s) == [tag |-> "Drain", key |-> 0, val |-> 0, items |-> s]
\* No value: the call panicked.
Panicked == [tag |-> "Panic", key |-> 0, val |-> 0, items |-> <<>>]

\* ------------------------------------------------------------- FrequencyMap

\* FrequencyMap::new
new == [map |-> EmptyMap, total |-> 0]

\* FrequencyMap::get_
get_(self, key) == IF key \in DOMAIN self.map THEN self.map[key] ELSE 0

\* FrequencyMap::get
get(self, key) == get_(self, key)

\* FrequencyMap::contains_key
contains_key(self, key) == key \in DOMAIN self.map

\* is_empty_() written as `0 == self.map.len()`.
is_empty_by_len(self) == 0 = Cardinality(DOMAIN self.map)

\* FrequencyMap::is_empty_
is_empty_(self) == 0 = self.total

\* FrequencyMap::len_
len_(self) == Cardinality(DOMAIN self.map)

\* FrequencyMap::total_
total_(self) == self.total

\* FrequencyMap::is_empty
is_empty(self) == is_empty_(self)

\* FrequencyMap::len
len(self) == len_(self)

\* FrequencyMap::iter, collected: the set of (key, count) pairs it yields
iter(self) == {<<k, self.map[k]>> : k \in DOMAIN self.map}

\* clear() without `self.total = 0`.
clear_total_kept(self) == [map |-> EmptyMap, total |-> self.total]

\* FrequencyMap::clear
clear(self) == [map |-> EmptyMap, total |-> 0]

\* insert() without `self.total -= *v` on an existing record.
insert_total_added(self, key, count) ==
    IF key \in DOMAIN self.map
    THEN [self |-> [map |-> IF 0 = count THEN MapRemove(self.map, key)
                                         ELSE MapPut(self.map, key, count),
                    total |-> self.total + count],
          ret |-> Some(self.map[key])]
    ELSE IF 0 # count
         THEN [self |-> [map |-> MapPut(self.map, key, count),
                         total |-> self.total + count],
               ret |-> None]
         ELSE [self |-> self, ret |-> None]

\* FrequencyMap::insert: the instance afterwards and the value returned
insert(self, key, count) ==
    IF key \in DOMAIN self.map
    THEN LET v  == self.map[key]
             t1 == self.total - v
             m2 == IF 0 = count THEN MapRemove(self.map, key)
                                ELSE MapPut(self.map, key, count)
         IN  [self |-> [map |-> m2, total |-> t1 + count], ret |-> Some(v)]
    ELSE IF 0 # count
         THEN [self |-> [map |-> MapPut(self.map, key, count),
                         total |-> self.total + count],
               ret |-> None]
         ELSE [self |-> self, ret |-> None]

\* FrequencyMap::push: entry(key).and_modify(|v| *v += 1).or_insert(1)
push(self, key) ==
    LET m2 == IF key \in DOMAIN self.map
              THEN MapPut(self.map, key, self.map[key] + 1)
              ELSE MapPut(self.map, key, 1)
    IN  [map |-> m2, total |-> self.total + 1]

\* push_into_map_() without the removal of a record whose count reaches 0.
push_into_map_no_remove(m, key, count) ==
    IF 0 = count
    THEN [map |-> m, delta |-> 0]
    ELSE IF key \in DOMAIN m
         THEN [map |-> MapPut(m, key, m[key] + count), delta |-> count]
         ELSE [map |-> MapPut(m, key, count), delta |-> count]

\* FrequencyMap::push_into_map_: the map afterwards and the total delta
push_into_map_(m, key, count) ==
    IF 0 = count
    THEN [map |-> m, delta |-> 0]
    ELSE IF key \in DOMAIN m
         THEN LET v == m[key] + count
              IN  [map |-> IF 0 = v THEN MapRemove(m, key) ELSE MapPut(m, key, v),
                   delta |-> count]
         ELSE [map |-> MapPut(m, key, count), delta |-> count]

\* push_n() written with entry(key).and_modify(|v| *v += count).or_insert(count).
push_n_entry(self, key, count) ==
    LET m2 == IF key \in DOMAIN self.map
              THEN MapPut(self.map, key, self.map[key] + count)
              ELSE MapPut(self.map, key, count)
    IN  [map |-> m2, total |-> self.total + count]

\* FrequencyMap::push_n
push_n(self, key, count) ==
    LET r == push_into_map_(self.map, key, count)
    IN  [map |-> r.map, total |-> self.total + r.delta]

\* remove() without `self.total -= v`.
remove_total_kept(self, key) ==
    IF key \in DOMAIN self.map
    THEN [self |-> [map |-> MapRemove(self.map, key), total |-> self.total],
          ret |-> Some(self.map[key])]
    ELSE [self |-> self, ret |-> None]

\* FrequencyMap::remove
remove(self, key) ==
    IF key \in DOMAIN self.map
    THEN [self |-> [map |-> MapRemove(self.map, key),
                    total |-> self.total - self.map[key]],
          ret |-> Some(self.map[key])]
    ELSE [self |-> self, ret |-> None]

\* remove_entry() without `self.total -= v`.
remove_entry_total_kept(self, key) ==
    IF key \in DOMAIN self.map
    THEN [self |-> [map |-> MapRemove(self.map, key), total |-> self.total],
          ret |-> SomeEntry(key, self.map[key])]
    ELSE [self |-> self, ret |-> None]

\* FrequencyMap::remove_entry
remove_entry(self, key) ==
    IF key \in DOMAIN self.map
    THEN [self |-> [map |-> MapRemove(self.map, key),
                    total |-> self.total - self.map[key]],
          ret |-> SomeEntry(key, self.map[key])]
    ELSE [self |-> self, ret |-> None]

\* The predicates callers pass to retain(): |key, count| count > n,
\* |key, count| count < n, |key, count| key < n.
Preds ==
    [kind : {"count_gt", "count_lt"}, n : (-MaxCount - 1)..(MaxCount + 1)]
        \cup [kind : {"key_lt"}, n : 1..(NumKeys + 1)]

NoPred == [kind |-> "none", n |-> 0]

Apply(f, key, count) ==
    CASE f.kind = "count_gt" -> count > f.n
      [] f.kind = "count_lt" -> count < f.n
      [] f.kind = "key_lt"   -> key < f.n
      [] OTHER               -> TRUE

\* retain() without `self.total -= dropped_total`.
retain_total_kept(self, f) ==
    [map |-> [k \in {x \in DOMAIN self.map : Apply(f, x, self.map[x])} |-> self.map[k]],
     total |-> self.total]

\* FrequencyMap::retain
retain(self, f) ==
    LET kept    == {k \in DOMAIN self.map : Apply(f, k, self.map[k])}
        dropped == (DOMAIN self.map) \ kept
        dropped_total == SumOver(self.map, dropped)
    IN  [map |-> [k \in kept |-> self.map[k]], total |-> self.total - dropped_total]

\* drain() without `self.total = 0`.
drain_total_kept(self, order) ==
    [self  |-> [map |-> EmptyMap, total |-> self.total],
     items |-> [i \in 1..Len(order) |-> <<order[i], self.map[order[i]]>>]]

\* FrequencyMap::drain, the iterator run to its end in the order `order`:
\* the instance afterwards and the (key, count) pairs yielded
drain(self, order) ==
    [self  |-> [map |-> EmptyMap, total |-> 0],
     items |-> [i \in 1..Len(order) |-> <<order[i], self.map[order[i]]>>]]

RECURSIVE PushAll(_, _)
\* for (key, count) in items { self.push_n(key, count); }
PushAll(self, items) ==
    IF items = <<>> THEN self
    ELSE PushAll(push_n(self, Head(items)[1], Head(items)[2]), Tail(items))

\* FrequencyMap::append: `self` and `other` afterwards
append(self, oth, order) ==
    LET d == drain(oth, order)
    IN  [self |-> PushAll(self, d.items), other |-> d.self]

RECURSIVE PushEach(_, _)
\* for key in keys { self.push(key); }
PushEach(self, keys) ==
    IF keys = <<>> THEN self
    ELSE PushEach(push(self, Head(keys)), Tail(keys))

RECURSIVE CountEach(_, _)
\* for key in keys { map.entry(key).and_modify(|v| *v += 1).or_insert(1); }
CountEach(m, keys) ==
    IF keys = <<>> THEN m
    ELSE LET key == Head(keys)
         IN  CountEach(MapPut(m, key, IF key \in DOMAIN m THEN m[key] + 1 ELSE 1),
                       Tail(keys))

\* FromIterator<K>::from_iter: total += 1 along with every key counted
from_iter(keys) == [map |-> CountEach(EmptyMap, keys), total |-> Len(keys)]

\* From<[K; N]>::from with total = map.len() in place of N.
from_keys_total_len(value) ==
    [map |-> CountEach(EmptyMap, value),
     total |-> Cardinality(DOMAIN CountEach(EmptyMap, value))]

\* From<[K; N]>::from: total = N as isize
from_keys(value) == [map |-> CountEach(EmptyMap, value), total |-> Len(value)]

RECURSIVE PushPairs(_, _)
\* for (key, count) in value { total += Self::push_into_map_(&mut map, key, count); }
PushPairs(acc, value) ==
    IF value = <<>> THEN acc
    ELSE LET r == push_into_map_(acc.map, Head(value)[1], Head(value)[2])
         IN  PushPairs([map |-> r.map, total |-> acc.total + r.delta], Tail(value))

RECURSIVE EntryPairs(_, _)
EntryPairs(acc, value) ==
    IF value = <<>> THEN acc
    ELSE LET key == Head(value)[1]
             count == Head(value)[2]
             v == IF key \in DOMAIN acc.map THEN acc.map[key] + count ELSE count
         IN  EntryPairs([map |-> MapPut(acc.map, key, v), total |-> acc.total + count],
                        Tail(value))

\* From<[(K, isize); N]>::from written with
\* entry(key).and_modify(|v| *v += count).or_insert(count).
from_pairs_entry(value) == EntryPairs([map |-> EmptyMap, total |-> 0], value)

\* From<[(K, isize); N]>::from
from_pairs(value) == PushPairs([map |-> EmptyMap, total |-> 0], value)

\* ---------------------------------------------------------- UnicodePointMap

\* util::char_to_valid_index, where usize is at least as wide as char:
\* `c_u32 as usize`.
char_to_valid_index(c) == c

\* new() whose dense tier reaches up to and including the ceiling.
upm_new_inclusive(default_contiguous_ceiling) ==
    [vec |-> [ix \in 0..default_contiguous_ceiling |-> 0],
     map |-> EmptyMap,
     len |-> 0,
     total |-> 0]

\* UnicodePointMap::new: the ceiling is clamped to MAXIMUM_VALID_CHAR_VALUE
\* and the dense tier is `vec![0; ceiling]`.
upm_new(default_contiguous_ceiling) ==
    LET ceiling == IF default_contiguous_ceiling > MAXIMUM_VALID_CHAR_VALUE
                   THEN MAXIMUM_VALID_CHAR_VALUE
                   ELSE default_contiguous_ceiling
    IN  [vec |-> [ix \in 0..(ceiling - 1) |-> 0],
         map |-> EmptyMap,
         len |-> 0,
         total |-> 0]

\* clear() that empties the dense tier with Vec::clear instead of filling
\* it with zeroes.
upm_clear_drops_vec(self) ==
    [vec |-> [ix \in {} |-> 0],
     map |-> EmptyMap,
     len |-> 0,
     total |-> 0]

\* UnicodePointMap::clear
upm_clear(self) ==
    [vec |-> [ix \in DOMAIN self.vec |-> 0],
     map |-> EmptyMap,
     len |-> 0,
     total |-> 0]

\* What a mutating call gives: the instance afterwards, the value returned
\* and whether the call found an existing sparse entry holding 0, which is
\* what its `debug_assert!(0 != *v)` rejects.
Outcome(self, r, zero_found) == [self |-> self, ret |-> r, zero_found |-> zero_found]

\* insert() without the dispatch on the index: every code point is kept in
\* the sparse tier.
upm_insert_sparse_only(self, c, count) ==
    IF c \in DOMAIN self.map
    THEN LET prev == self.map[c]
         IN  Outcome([self EXCEPT !.map = IF count = 0 THEN MapRemove(@, c)
                                                       ELSE MapPut(@, c, count),
                                  !.len = IF count = 0 THEN @ - 1 ELSE @,
                                  !.total = @ + (count - prev)],
                     Some(prev),
                     0 = prev)
    ELSE Outcome([self EXCEPT !.map = IF 0 # count THEN MapPut(@, c, count) ELSE @,
                              !.len = IF 0 # count THEN @ + 1 ELSE @,
                              !.total = @ + count],
                 None,
                 FALSE)

\* UnicodePointMap::insert. The differences `curr - prev` and
\* `count - prev` are taken on isize before they are converted to i64 and
\* added to total; both steps are given as a build without overflow checks
\* computes them.
upm_insert(self, c, count) ==
    LET ix == char_to_valid_index(c)
    IN  IF ix \in DOMAIN self.vec
        THEN LET prev == self.vec[ix]
                 curr == count
                 len1 == IF 0 = prev
                         THEN (IF 0 # curr THEN self.len + 1 ELSE self.len)
                         ELSE (IF 0 = curr THEN self.len - 1 ELSE self.len)
             IN  Outcome([self EXCEPT !.vec[ix] = curr,
                                      !.len = len1,
                                      !.total = wrapping_add(@, wrapping_sub(curr, prev))],
                         IF 0 = prev THEN None ELSE Some(prev),
                         FALSE)
        ELSE IF c \in DOMAIN self.map
        THEN LET prev == self.map[c]
             IN  Outcome([self EXCEPT !.map = IF count = 0 THEN MapRemove(@, c)
                                                           ELSE MapPut(@, c, count),
                                      !.len = IF count = 0 THEN @ - 1 ELSE @,
                                      !.total = wrapping_add(@, wrapping_sub(count, prev))],
                         Some(prev),
                         0 = prev)
        ELSE Outcome([self EXCEPT !.map = IF 0 # count THEN MapPut(@, c, count) ELSE @,
                                  !.len = IF 0 # count THEN @ + 1 ELSE @,
                                  !.total = wrapping_add(@, count)],
                     None,
                     FALSE)

\* UnicodePointMap::push
upm_push(self, c) ==
    LET ix == char_to_valid_index(c)
    IN  IF ix \in DOMAIN self.vec
        THEN LET prev == self.vec[ix]
             IN  Outcome([self EXCEPT !.vec[ix] = @ + 1,
                                      !.len = IF 0 = prev THEN @ + 1 ELSE @,
                                      !.total = @ + 1],
                         Unit,
                         FALSE)
        ELSE IF c \in DOMAIN self.map
        THEN Outcome([self EXCEPT !.map[c] = @ + 1,
                                  !.total = @ + 1],
                     Unit,
                     0 = self.map[c])
        ELSE Outcome([self EXCEPT !.map = MapPut(@, c, 1),
                                  !.len = @ + 1,
                                  !.total = @ + 1],
                     Unit,
                     FALSE)

\* UnicodePointMap::push_n
upm_push_n(self, c, count) ==
    LET ix == char_to_valid_index(c)
    IN  IF 0 = count THEN Outcome(self, Unit, FALSE)
        ELSE IF ix \in DOMAIN self.vec
        THEN LET prev == self.vec[ix]
                 new_ == prev + count
                 len1 == IF 0 = prev
                         THEN (IF 0 = new_ THEN self.len ELSE self.len + 1)
                         ELSE (IF 0 = new_ THEN self.len - 1 ELSE self.len)
             IN  Outcome([self EXCEPT !.vec[ix] = new_,
                                      !.len = len1,
                                      !.total = @ + count],
                         Unit,
                         FALSE)
        ELSE IF c \in DOMAIN self.map
        THEN LET v == self.map[c] + count
             IN  Outcome([self EXCEPT !.map = IF 0 = v THEN MapRemove(@, c)
                                                       ELSE MapPut(@, c, v),
                                      !.len = IF 0 = v THEN @ - 1 ELSE @,
                                      !.total = @ + count],
                         Unit,
                         0 = self.map[c])
        ELSE Outcome([self EXCEPT !.map = MapPut(@, c, count),
                                  !.len = @ + 1,
                                  !.total = @ + count],
                     Unit,
                     FALSE)

\* remove() that leaves the cached total as it was.
upm_remove_total_kept(self, c) ==
    LET ix == char_to_valid_index(c)
    IN  IF ix \in DOMAIN self.vec
        THEN LET prev == self.vec[ix]
             IN  IF 0 # prev
                 THEN Outcome([self EXCEPT !.vec[ix] = 0, !.len = @ - 1],
                              Some(prev), FALSE)
                 ELSE Outcome(self, None, FALSE)
        ELSE IF c \in DOMAIN self.map
        THEN Outcome([self EXCEPT !.map = MapRemove(@, c), !.len = @ - 1],
                     Some(self.map[c]), FALSE)
        ELSE Outcome(self, None, FALSE)

\* remove() that takes one off len whether or not it found a record.
upm_remove_len_always(self, c) ==
    LET ix == char_to_valid_index(c)
    IN  IF ix \in DOMAIN self.vec
        THEN LET prev == self.vec[ix]
             IN  Outcome([self EXCEPT !.vec[ix] = 0,
                                      !.len = @ - 1,
                                      !.total = @ - prev],
                         IF 0 # prev THEN Some(prev) ELSE None, FALSE)
        ELSE IF c \in DOMAIN self.map
        THEN LET v == self.map[c]
             IN  Outcome([self EXCEPT !.map = MapRemove(@, c),
                                      !.len = @ - 1,
                                      !.total = @ - v],
                         Some(v), FALSE)
        ELSE Outcome([self EXCEPT !.len = @ - 1], None, FALSE)

\* UnicodePointMap::remove
upm_remove(self, c) ==
    LET ix == char_to_valid_index(c)
    IN  IF ix \in DOMAIN self.vec
        THEN LET prev == self.vec[ix]
             IN  IF 0 # prev
                 THEN Outcome([self EXCEPT !.vec[ix] = 0,
                                           !.len = @ - 1,
                                           !.total = @ - prev],
                              Some(prev), FALSE)
                 ELSE Outcome(self, None, FALSE)
        ELSE IF c \in DOMAIN self.map
        THEN LET v == self.map[c]
             IN  Outcome([self EXCEPT !.map = MapRemove(@, c),
                                      !.len = @ - 1,
                                      !.total = @ - v],
                         Some(v), FALSE)
        ELSE Outcome(self, None, FALSE)

RECURSIVE upm_push_each(_, _)
\* for c in value { upm.push(c); }
upm_push_each(self, value) ==
    IF value = <<>> THEN self
    ELSE upm_push_each(upm_push(self, Head(value)).self, Tail(value))

RECURSIVE upm_push_n_each(_, _)
\* for (c, count) in value { upm.push_n(c, count); }
upm_push_n_each(self, value) ==
    IF value = <<>> THEN self
    ELSE upm_push_n_each(upm_push_n(self, Head(value)[1], Head(value)[2]).self,
                         Tail(value))

\* UnicodePointMap::default, `ceiling` being DEFAULT_CONTIGUOUS_CEILING
upm_default(ceiling) == upm_new(ceiling)

\* From<[char; N]>::from and FromIterator<char>::from_iter: default()
\* followed by a push of every char. No push finds an entry holding 0:
\* the counts only rise from 1.
upm_from_keys(ceiling, value) == upm_push_each(upm_default(ceiling), value)
upm_from_iter(ceiling, iter_) == upm_push_each(upm_default(ceiling), iter_)

\* From<[(char, isize); N]>::from and FromIterator<(char, isize)>::from_iter:
\* default() followed by a push_n of every pair. No push_n finds an entry
\* holding 0: push_n removes the entry whose sum is 0.
upm_from_pairs(ceiling, value) == upm_push_n_each(upm_default(ceiling), value)
upm_from_iter_pairs(ceiling, iter_) == upm_push_n_each(upm_default(ceiling), iter_)

\* UnicodePointMap::len_ and len
upm_len(self) == self.len

\* UnicodePointMap::total_ and total
upm_total(self) == self.total

\* is_empty() as FrequencyMap has it: `0 == self.total`.
upm_is_empty_by_total(self) == 0 = self.total

\* UnicodePointMap::is_empty_ and is_empty
upm_is_empty(self) == 0 = self.len

\* UnicodePointMap::contains_key
upm_contains_key(self, c) ==
    LET ix == char_to_valid_index(c)
    IN  IF ix \in DOMAIN self.vec THEN self.vec[ix] # 0
        ELSE c \in DOMAIN self.map

\* UnicodePointMap::get
upm_get(self, c) ==
    LET ix == char_to_valid_index(c)
    IN  IF ix \in DOMAIN self.vec THEN self.vec[ix]
        ELSE IF c \in DOMAIN self.map THEN self.map[c] ELSE 0

\* UnicodePointMap::get_
upm_get_(self, c) ==
    LET ix == char_to_valid_index(c)
    IN  IF ix \in DOMAIN self.vec THEN self.vec[ix]
        ELSE IF c \in DOMAIN self.map THEN self.map[c] ELSE 0

\* Index<char>::index and Index<&char>::index
upm_index(self, c) == upm_get_(self, c)

\* Vec::len of the dense tier
VecLen(vec) == Cardinality(DOMAIN vec)

\* Option<usize> and Option<hash_map::Iter>: the fields of the iterator.
NoIndex == [some |-> FALSE, ix |-> 0]
SomeIndex(ix) == [some |-> TRUE, ix |-> ix]
NoMapIter == [some |-> FALSE, rest |-> <<>>]
SomeMapIter(rest) == [some |-> TRUE, rest |-> rest]

\* No iterator is borrowed from the instance.
NoIter == [live |-> FALSE, vec_index |-> NoIndex, map_iter |-> NoMapIter]

\* UnicodePointMap::iter
upm_iter(self) ==
    [live |-> TRUE, vec_index |-> SomeIndex(0), map_iter |-> NoMapIter]

\* A scan of the dense tier from its last slot down: the ix-th step looks
\* at the slots below vec.len() - ix.
DenseScanDown(vec, ix) ==
    LET hits == {i \in 0..(VecLen(vec) - 1 - ix) : 0 # vec[i]}
    IN  IF hits # {}
        THEN LET slot == CHOOSE i \in hits : \A j \in hits : j <= i
             IN  [ret |-> SomeEntry(slot, vec[slot]), ix |-> VecLen(vec) - slot]
        ELSE [ret |-> None, ix |-> Maximum(ix, VecLen(vec))]

\* The `while *ix < self.upm.vec.len()` loop of next(): it stops at the
\* first non-zero slot from ix on, which is returned with the index stepped
\* past it, or else runs the index up to vec.len().
DenseScan(vec, ix) ==
    LET hits == {i \in ix..(VecLen(vec) - 1) : 0 # vec[i]}
    IN  IF hits # {}
        THEN LET slot == CHOOSE i \in hits : \A j \in hits : i <= j
             IN  [ret |-> SomeEntry(slot, vec[slot]), ix |-> slot + 1]
        ELSE [ret |-> None, ix |-> Maximum(ix, VecLen(vec))]

\* The `if let Some(mi) = &mut self.map_iter` block of next().
MapStep(it) ==
    IF it.map_iter.some
    THEN IF it.map_iter.rest # <<>>
         THEN LET c == Head(it.map_iter.rest)
              IN  [it |-> [it EXCEPT !.map_iter.rest = Tail(@)],
                   ret |-> SomeEntry(c[1], c[2])]
         ELSE [it |-> [it EXCEPT !.map_iter = NoMapIter], ret |-> None]
    ELSE [it |-> it, ret |-> None]

\* next() that starts over once both phases are spent.
upm_next_restarting(self, it, order) ==
    IF it.vec_index.some
    THEN LET scan == DenseScan(self.vec, it.vec_index.ix)
         IN  IF scan.ret # None
             THEN [it |-> [it EXCEPT !.vec_index = SomeIndex(scan.ix)],
                   ret |-> scan.ret]
             ELSE MapStep([it EXCEPT
                    !.vec_index = NoIndex,
                    !.map_iter = SomeMapIter(
                        [i \in 1..Len(order) |-> <<order[i], self.map[order[i]]>>])])
    ELSE IF it.map_iter.some
    THEN MapStep(it)
    ELSE LET scan == DenseScan(self.vec, 0)
         IN  [it |-> [it EXCEPT !.vec_index = SomeIndex(scan.ix)],
              ret |-> scan.ret]

\* next() that keeps the dense scan index when it hands over to the
\* sparse tier's iterator.
upm_next_keeps_index(self, it, order) ==
    IF it.vec_index.some
    THEN LET scan == DenseScan(self.vec, it.vec_index.ix)
         IN  IF scan.ret # None
             THEN [it |-> [it EXCEPT !.vec_index = SomeIndex(scan.ix)],
                   ret |-> scan.ret]
             ELSE MapStep([it EXCEPT
                    !.vec_index = SomeIndex(scan.ix),
                    !.map_iter = SomeMapIter(
                        [i \in 1..Len(order) |-> <<order[i], self.map[order[i]]>>])])
    ELSE MapStep(it)

\* UnicodePointMapIter::next; `order` is the order in which
\* self.upm.map.iter() visits the sparse tier.
upm_next(self, it, order) ==
    IF it.vec_index.some
    THEN LET scan == DenseScan(self.vec, it.vec_index.ix)
         IN  IF scan.ret # None
             THEN [it |-> [it EXCEPT !.vec_index = SomeIndex(scan.ix)],
                   ret |-> scan.ret]
             ELSE MapStep([it EXCEPT
                    !.vec_index = NoIndex,
                    !.map_iter = SomeMapIter(
                        [i \in 1..Len(order) |-> <<order[i], self.map[order[i]]>>])])
    ELSE MapStep(it)

\* The record of a call on the UnicodePointMap instance; `zero_found` as in
\* Outcome.
UCall(op, c, count, zero_found) ==
    [op |-> op, c |-> c, count |-> count, zero_found |-> zero_found]

\* -------------------------------------------------------------- the calls

\* The instance held in the variables.
Self == [map |-> map, total |-> total]

\* self := s
Becomes(s) == map' = s.map /\ total' = s.total

InBounds(m) == \A k \in DOMAIN m : m[k] \in Counts

\* The instances a caller can hold with at most maxLen records: records over
\* Keys with counts in Counts (a count of 0 is what push() leaves behind on
\* a count of -1), the total being their sum.
Instances(maxLen) ==
    LET doms == {S \in SUBSET Keys : Cardinality(S) <= maxLen}
        maps == UNION {[S -> Counts] : S \in doms}
    IN  {[map |-> m, total |-> SumCounts(m)] : m \in maps}

\* The record of a call: its name, its arguments and the instance before it.
Call(op, key, count, f) ==
    [op |-> op, key |-> key, count |-> count, pred |-> f, pre |-> Self]

\* The record of a call of which only the name is kept.
Named(op) == [op |-> op, key |-> 0, count |-> 0, pred |-> NoPred, pre |-> new]

NoPending == [state |-> "none", key |-> 0, count |-> 0, len |-> 0, total |-> 0]

\* What follows a push_n(key, count): a push_n(k, n), n # 0, on a k without
\* a record is noted with len() and total() before it; the push_n(k, -n)
\* that directly follows it marks the note "cancelled".
AfterPushN(key, count) ==
    IF pending.state = "pushed" /\ pending.key = key /\ pending.count = -count
    THEN [pending EXCEPT !.state = "cancelled"]
    ELSE IF ~contains_key(Self, key) /\ count # 0
         THEN [state |-> "pushed", key |-> key, count |-> count,
               len |-> len(Self), total |-> total_(Self)]
         ELSE NoPending

\* What a call on the instance leaves alone.
Elsewhere == UNCHANGED <<input, capacity, upm, ulast, uret, uiter, yielded, nones, twin>>

Traced(op, key, count, f, r) ==
    /\ last' = Call(op, key, count, f)
    /\ ret' = r
    /\ pending' = IF op = "push_n" THEN AfterPushN(key, count) ELSE NoPending
    /\ Elsewhere

Untraced(op) ==
    /\ last' = Named(op)
    /\ UNCHANGED <<ret, pending>>
    /\ Elsewhere

Init ==
    /\ map = new.map
    /\ total = new.total
    /\ ret = Unit
    /\ last = Named("new")
    /\ other = new
    /\ pending = NoPending
    /\ input = <<>>
    /\ capacity = 0
    /\ upm = upm_new(0)
    /\ ulast = UCall("new", 0, 0, FALSE)
    /\ uret = Unit
    /\ uiter = NoIter
    /\ yielded = <<>>
    /\ nones = 0
    /\ twin = [self |-> upm_new(0), ret |-> Unit]

\* ------------------------------------------------- Spec: the traced calls

Insert(key, count) ==
    LET r == insert(Self, key, count)
    IN  /\ Becomes(r.self)
        /\ Traced("insert", key, count, NoPred, r.ret)
        /\ UNCHANGED other

Push(key) ==
    LET r == push(Self, key)
    IN  /\ InBounds(r.map)
        /\ Becomes(r)
        /\ Traced("push", key, 1, NoPred, Unit)
        /\ UNCHANGED other

PushN(key, count) ==
    LET r == push_n(Self, key, count)
    IN  /\ InBounds(r.map)
        /\ Becomes(r)
        /\ Traced("push_n", key, count, NoPred, Unit)
        /\ UNCHANGED other

Remove(key) ==
    LET r == remove(Self, key)
    IN  /\ Becomes(r.self)
        /\ Traced("remove", key, 0, NoPred, r.ret)
        /\ UNCHANGED other

RemoveEntry(key) ==
    LET r == remove_entry(Self, key)
    IN  /\ Becomes(r.self)
        /\ Traced("remove_entry", key, 0, NoPred, r.ret)
        /\ UNCHANGED other

Clear ==
    /\ Becomes(clear(Self))
    /\ Traced("clear", 0, 0, NoPred, Unit)
    /\ UNCHANGED other

Retain(f) ==
    /\ Becomes(retain(Self, f))
    /\ Traced("retain", 0, 0, f, Unit)
    /\ UNCHANGED other

Drain(order) ==
    LET r == drain(Self, order)
    IN  /\ Becomes(r.self)
        /\ Traced("drain", 0, 0, NoPred, Yielded(r.items))
        /\ UNCHANGED other

Next ==
    \/ \E key \in Keys, count \in Counts : Insert(key, count)
    \/ \E key \in Keys : Push(key)
    \/ \E key \in Keys, count \in Counts : PushN(key, count)
    \/ \E key \in Keys : Remove(key)
    \/ \E key \in Keys : RemoveEntry(key)
    \/ Clear
    \/ \E f \in Preds : Retain(f)
    \/ \E order \in Orders(map) : Drain(order)

Spec == Init /\ [][Next]_vars

\* ------------------------------------- SpecAll: every call, append included

AnyInsert(key, count) ==
    /\ Becomes(insert(Self, key, count).self)
    /\ Untraced("insert")
    /\ UNCHANGED other

AnyPush(key) ==
    LET r == push(Self, key)
    IN  /\ InBounds(r.map)
        /\ Becomes(r)
        /\ Untraced("push")
        /\ UNCHANGED other

AnyPushN(key, count) ==
    LET r == push_n(Self, key, count)
    IN  /\ InBounds(r.map)
        /\ Becomes(r)
        /\ Untraced("push_n")
        /\ UNCHANGED other

AnyRemove(key) ==
    /\ Becomes(remove(Self, key).self)
    /\ Untraced("remove")
    /\ UNCHANGED other

AnyRemoveEntry(key) ==
    /\ Becomes(remove_entry(Self, key).self)
    /\ Untraced("remove_entry")
    /\ UNCHANGED other

AnyClear ==
    /\ Becomes(clear(Self))
    /\ Untraced("clear")
    /\ UNCHANGED other

AnyRetain(f) ==
    /\ Becomes(retain(Self, f))
    /\ Untraced("retain")
    /\ UNCHANGED other

AnyDrain(order) ==
    /\ Becomes(drain(Self, order).self)
    /\ Untraced("drain")
    /\ UNCHANGED other

\* self.append(&mut oth), oth iterated in the order `order`
AnyAppend(oth, order) ==
    LET r == append(Self, oth, order)
    IN  /\ InBounds(r.self.map)
        /\ Becomes(r.self)
        /\ other' = r.other
        /\ Untraced("append")

NextAll ==
    \/ \E key \in Keys, count \in Counts : AnyInsert(key, count)
    \/ \E key \in Keys : AnyPush(key)
    \/ \E key \in Keys, count \in Counts : AnyPushN(key, count)
    \/ \E key \in Keys : AnyRemove(key)
    \/ \E key \in Keys : AnyRemoveEntry(key)
    \/ AnyClear
    \/ \E f \in Preds : AnyRetain(f)
    \/ \E order \in Orders(map) : AnyDrain(order)
    \/ \E oth \in Instances(MaxOtherLen) :
          \E order \in Orders(oth.map) : AnyAppend(oth, order)

SpecAll == Init /\ [][NextAll]_vars

\* --------------------------------------- SpecFrom: building an instance

\* The arrays of at most MaxArrayLen elements of S.
Arrays(S) == UNION {[1..n -> S] : n \in 0..MaxArrayLen}

\* The instance built by a constructor from `value`.
Built(op, self, value) ==
    /\ Becomes(self)
    /\ last' = Named(op)
    /\ input' = value
    /\ UNCHANGED <<ret, pending, other, capacity, upm, ulast, uret, uiter, yielded, nones, twin>>

\* FrequencyMap::from([K; N])
FromKeys(value) == Built("from_keys", from_keys(value), value)

\* FrequencyMap::from_iter(keys)
FromIter(keys) == Built("from_iter", from_iter(keys), keys)

\* FrequencyMap::from([(K, isize); N])
FromPairs(value) == Built("from_pairs", from_pairs(value), value)

NextFrom ==
    \/ last.op = "new" /\ \E value \in Arrays(Keys) : FromKeys(value)
    \/ last.op = "new" /\ \E keys \in Arrays(Keys) : FromIter(keys)
    \/ last.op = "new" /\ \E value \in Arrays(Keys \X Counts) : FromPairs(value)

SpecFrom == Init /\ [][NextFrom]_vars

\* ------------------------------------------- SpecCap: capacity management

\* The capacities a HashMap of capacity cap may have once it holds n
\* records: unchanged if they fit, otherwise any capacity that holds them.
Grown(cap, n) == IF n <= cap THEN {cap} ELSE n..MaxCapacity

\* reserve() that replaces the map by HashMap::with_capacity(additional).
reserve_replaces_map(self, cap, additional) ==
    {[self |-> [map |-> EmptyMap, total |-> self.total], capacity |-> c] :
        c \in additional..MaxCapacity}

\* FrequencyMap::reserve: HashMap::reserve leaves the capacity alone if
\* len() + additional fits, and else makes it at least len() + additional.
reserve(self, cap, additional) ==
    {[self |-> self, capacity |-> c] : c \in Grown(cap, len_(self) + additional)}

\* FrequencyMap::shrink_to: HashMap::shrink_to does nothing if the capacity
\* is below min_capacity, and else leaves it no lower than min_capacity and
\* len().
shrink_to(self, cap, min_capacity) ==
    {[self |-> self, capacity |-> c] :
        c \in IF cap < min_capacity THEN {cap}
              ELSE Maximum(len_(self), min_capacity)..cap}

\* FrequencyMap::shrink_to_fit
shrink_to_fit(self, cap) ==
    {[self |-> self, capacity |-> c] : c \in len_(self)..cap}

\* FrequencyMap::capacity
capacity_(cap) == cap

\* FrequencyMap::with_capacity: HashMap::with_capacity(capacity) is an empty
\* map that holds at least `capacity` records and has allocated nothing
\* when `capacity` is 0.
with_capacity(cap) ==
    {[self |-> new, capacity |-> c] : c \in Grown(0, cap)}

\* A call that may reallocate: the instance becomes self, the capacity c.
Resized(op, n, self, c) ==
    /\ Becomes(self)
    /\ capacity' = c
    /\ last' = Call(op, 0, n, NoPred)
    /\ UNCHANGED <<ret, pending, other, input, upm, ulast, uret, uiter, yielded, nones, twin>>

CapInsert(key, count) ==
    LET r == insert(Self, key, count).self
    IN  \E c \in Grown(capacity, len_(r)) :
           /\ Becomes(r)
           /\ capacity' = c
           /\ last' = Named("insert")
           /\ UNCHANGED <<ret, pending, other, input, upm, ulast, uret, uiter, yielded, nones, twin>>

CapPush(key) ==
    LET r == push(Self, key)
    IN  /\ InBounds(r.map)
        /\ \E c \in Grown(capacity, len_(r)) :
              /\ Becomes(r)
              /\ capacity' = c
              /\ last' = Named("push")
              /\ UNCHANGED <<ret, pending, other, input, upm, ulast, uret, uiter, yielded, nones, twin>>

Reserve(additional) ==
    /\ len_(Self) + additional <= MaxCapacity
    /\ \E r \in reserve(Self, capacity, additional) :
          Resized("reserve", additional, r.self, r.capacity)

ShrinkTo(min_capacity) ==
    \E r \in shrink_to(Self, capacity, min_capacity) :
       Resized("shrink_to", min_capacity, r.self, r.capacity)

ShrinkToFit ==
    \E r \in shrink_to_fit(Self, capacity) :
       Resized("shrink_to_fit", 0, r.self, r.capacity)

WithCapacity(cap) ==
    /\ cap <= MaxCapacity
    /\ \E r \in with_capacity(cap) :
          Resized("with_capacity", cap, r.self, r.capacity)

NextCap ==
    \/ \E key \in Keys, count \in Counts : CapInsert(key, count)
    \/ \E key \in Keys : CapPush(key)
    \/ \E additional \in 0..MaxCapacity : Reserve(additional)
    \/ \E min_capacity \in 0..MaxCapacity : ShrinkTo(min_capacity)
    \/ ShrinkToFit
    \/ \E cap \in 0..MaxCapacity : WithCapacity(cap)

SpecCap == Init /\ [][NextCap]_vars

\* ------------------------------------------- SpecU: one UnicodePointMap

FrequencyMapIdle ==
    UNCHANGED <<map, total, ret, last, other, pending, input, capacity>>

\* The counts of both tiers and len are within the callers' bounds.
UInBounds(self) ==
    /\ {ix \in DOMAIN self.vec : self.vec[ix] \notin Counts} = {}
    /\ {c \in DOMAIN self.map : self.map[c] \notin Counts} = {}
    /\ self.len <= MaxLen

\* A mutating call with outcome r.  Where the call found a sparse entry
\* holding 0, a build with debug assertions panics before anything is
\* written and a build without them carries on.
Proceeds(op, c, count, r) ==
    /\ ~uiter.live
    /\ ulast' = UCall(op, c, count, r.zero_found)
    /\ \/ upm' = r.self /\ uret' = r.ret
       \/ r.zero_found /\ upm' = upm /\ uret' = Panicked
    /\ UNCHANGED <<uiter, yielded, nones, twin>>

Lands(op, c, count, r) == Proceeds(op, c, count, r) /\ FrequencyMapIdle

\* self := upm_new(ceiling); the ceiling is kept as the call's `c`.
Constructs(op, ceiling) ==
    /\ ~uiter.live
    /\ upm' = upm_new(ceiling)
    /\ ulast' = UCall(op, ceiling, 0, FALSE)
    /\ uret' = Unit
    /\ UNCHANGED <<uiter, yielded, nones, twin>>

UNew(ceiling) ==
    /\ Constructs("new", ceiling)
    /\ FrequencyMapIdle

\* UnicodePointMap::default: new(DEFAULT_CONTIGUOUS_CEILING), the constant
\* being that of the build.
UDefault(ceiling) ==
    /\ Constructs("default", ceiling)
    /\ FrequencyMapIdle

UInsert(c, count) ==
    LET r == upm_insert(upm, c, count)
    IN  /\ UInBounds(r.self)
        /\ Lands("insert", c, count, r)

UPush(c) ==
    LET r == upm_push(upm, c)
    IN  /\ UInBounds(r.self)
        /\ Lands("push", c, 1, r)

UPushN(c, count) ==
    LET r == upm_push_n(upm, c, count)
    IN  /\ UInBounds(r.self)
        /\ Lands("push_n", c, count, r)

URemove(c) ==
    LET r == upm_remove(upm, c)
    IN  /\ UInBounds(r.self)
        /\ Lands("remove", c, 0, r)

Clears ==
    /\ ~uiter.live
    /\ upm' = upm_clear(upm)
    /\ ulast' = UCall("clear", 0, 0, FALSE)
    /\ uret' = Unit
    /\ UNCHANGED <<uiter, yielded, nones, twin>>

UClear ==
    /\ Clears
    /\ FrequencyMapIdle

NextU ==
    \/ \E ceiling \in 0..NumChars : UNew(ceiling)
    \/ \E c \in Chars, count \in Counts : UInsert(c, count)
    \/ \E c \in Chars : UPush(c)
    \/ \E c \in Chars, count \in Counts : UPushN(c, count)
    \/ \E c \in Chars : URemove(c)
    \/ UClear

SpecU == Init /\ [][NextU]_vars

\* The instance a From or FromIterator impl returns replaces the one held.
UBuilt(op, ceiling, self) ==
    /\ ~uiter.live
    /\ UInBounds(self)
    /\ upm' = self
    /\ ulast' = UCall(op, ceiling, 0, FALSE)
    /\ uret' = Unit
    /\ UNCHANGED <<uiter, yielded, nones, twin>>

\* UnicodePointMap::from([char; N])
UFromKeys(ceiling, value) ==
    /\ UBuilt("from_keys", ceiling, upm_from_keys(ceiling, value))
    /\ FrequencyMapIdle

\* UnicodePointMap::from([(char, isize); N])
UFromPairs(ceiling, value) ==
    /\ UBuilt("from_pairs", ceiling, upm_from_pairs(ceiling, value))
    /\ FrequencyMapIdle

\* <UnicodePointMap as FromIterator<char>>::from_iter
UFromIter(ceiling, iter_) ==
    /\ UBuilt("from_iter", ceiling, upm_from_iter(ceiling, iter_))
    /\ FrequencyMapIdle

\* <UnicodePointMap as FromIterator<(char, isize)>>::from_iter
UFromIterPairs(ceiling, iter_) ==
    /\ UBuilt("from_iter_pairs", ceiling, upm_from_iter_pairs(ceiling, iter_))
    /\ FrequencyMapIdle

\* DEFAULT_CONTIGUOUS_CEILING in a build with and without debug assertions.
DefaultCeilings ==
    {DEFAULT_CONTIGUOUS_CEILING_debug, DEFAULT_CONTIGUOUS_CEILING_release}

\* The two ways to an empty instance, with insert() and clear() as the
\* calls made on an instance before the next one is built.
NextNew ==
    \/ \E ceiling \in 0..NumChars : UNew(ceiling)
    \/ \E ceiling \in DefaultCeilings : UDefault(ceiling)
    \/ \E c \in Chars, count \in Counts : UInsert(c, count)
    \/ UClear

SpecNew == Init /\ [][NextNew]_vars

\* Every way to a new instance. What a constructor returns does not depend
\* on the instance held before, so the From and FromIterator impls are
\* taken from a fresh instance only.
NextBuild ==
    \/ NextNew
    \/ ulast.op = "new" /\ \E ceiling \in DefaultCeilings, value \in Arrays(Chars) :
          UFromKeys(ceiling, value)
    \/ ulast.op = "new" /\ \E ceiling \in DefaultCeilings, value \in Arrays(Chars \X Counts) :
          UFromPairs(ceiling, value)
    \/ ulast.op = "new" /\ \E ceiling \in DefaultCeilings, iter_ \in Arrays(Chars) :
          UFromIter(ceiling, iter_)
    \/ ulast.op = "new" /\ \E ceiling \in DefaultCeilings, iter_ \in Arrays(Chars \X Counts) :
          UFromIterPairs(ceiling, iter_)

SpecBuild == Init /\ [][NextBuild]_vars

\* ------------- SpecWide: insert() with counts at the limits of isize

\* insert(c, count) with any count of isize. Where the difference from the
\* previous count overflows isize, or the sum of total and the difference
\* overflows i64, a build with overflow checks panics at that operation,
\* after the count has been stored and len adjusted and before total is; a
\* build without them carries on with the wrapped value.
WideInsert(c, count) ==
    LET r == upm_insert(upm, c, count)
        prev == upm_get_(upm, c)
    IN  /\ ~uiter.live
        /\ ulast' = UCall("insert", c, count, r.zero_found)
        /\ \/ upm' = r.self /\ uret' = r.ret
           \/ /\ \/ SubOverflows(count, prev)
                 \/ AddOverflows(upm.total, count - prev)
              /\ upm' = [r.self EXCEPT !.total = upm.total]
              /\ uret' = Panicked
        /\ UNCHANGED <<uiter, yielded, nones, twin>>
        /\ FrequencyMapIdle

WideNew(ceiling) ==
    /\ Constructs("new", ceiling)
    /\ FrequencyMapIdle

NextWide ==
    \/ \E ceiling \in 0..NumChars : WideNew(ceiling)
    \/ \E c \in Chars, count \in EdgeCounts : WideInsert(c, count)

SpecWide == Init /\ [][NextWide]_vars

\* ------------------- SpecBoth: FrequencyMap<char> beside UnicodePointMap

\* The FrequencyMap<char> side of a call made on both containers.
Paired(op, self, r) ==
    /\ Becomes(self)
    /\ ret' = r
    /\ last' = Named(op)
    /\ UNCHANGED <<other, pending, input, capacity>>

BothNew(ceiling) ==
    /\ Paired("new", new, Unit)
    /\ Constructs("new", ceiling)

BothInsert(c, count) ==
    LET f == insert(Self, c, count)
        u == upm_insert(upm, c, count)
    IN  /\ UInBounds(u.self)
        /\ Paired("insert", f.self, f.ret)
        /\ Proceeds("insert", c, count, u)

BothPush(c) ==
    LET f == push(Self, c)
        u == upm_push(upm, c)
    IN  /\ InBounds(f.map) /\ UInBounds(u.self)
        /\ Paired("push", f, Unit)
        /\ Proceeds("push", c, 1, u)

BothPushN(c, count) ==
    LET f == push_n(Self, c, count)
        u == upm_push_n(upm, c, count)
    IN  /\ InBounds(f.map) /\ UInBounds(u.self)
        /\ Paired("push_n", f, Unit)
        /\ Proceeds("push_n", c, count, u)

BothRemove(c) ==
    LET f == remove(Self, c)
        u == upm_remove(upm, c)
    IN  /\ UInBounds(u.self)
        /\ Paired("remove", f.self, f.ret)
        /\ Proceeds("remove", c, 0, u)

BothClear ==
    /\ Paired("clear", clear(Self), Unit)
    /\ Clears

NextBoth ==
    \/ \E ceiling \in 0..NumChars : BothNew(ceiling)
    \/ \E c \in Chars, count \in Counts : BothInsert(c, count)
    \/ \E c \in Chars : BothPush(c)
    \/ \E c \in Chars, count \in Counts : BothPushN(c, count)
    \/ \E c \in Chars : BothRemove(c)
    \/ BothClear

SpecBoth == Init /\ [][NextBoth]_vars

\* ----------------------------------------- SpecIter: UnicodePointMapIter

\* A call that leaves the instance as it is.
Borrowed(op) ==
    /\ ulast' = UCall(op, 0, 0, FALSE)
    /\ UNCHANGED <<upm, twin>>
    /\ FrequencyMapIdle

UIter ==
    /\ ~uiter.live
    /\ uiter' = upm_iter(upm)
    /\ yielded' = <<>>
    /\ nones' = 0
    /\ uret' = Unit
    /\ Borrowed("iter")

UIterNext(order) ==
    LET r == upm_next(upm, uiter, order)
    IN  /\ uiter.live
        /\ nones < MaxNones
        /\ uiter' = r.it
        /\ uret' = r.ret
        /\ yielded' = IF r.ret = None THEN yielded
                      ELSE Append(yielded, <<r.ret.key, r.ret.val>>)
        /\ nones' = IF r.ret = None THEN nones + 1 ELSE nones
        /\ Borrowed("next")

\* The iterator goes out of scope.
UIterDrop ==
    /\ uiter.live
    /\ uiter' = NoIter
    /\ yielded' = <<>>
    /\ nones' = 0
    /\ uret' = Unit
    /\ Borrowed("drop")

NextIter ==
    \/ NextU
    \/ UIter
    \/ \E order \in Orders(upm.map) : UIterNext(order)
    \/ UIterDrop

SpecIter == Init /\ [][NextIter]_vars

\* SpecIter with a caller who goes on calling next() for as long as the
\* iterator is there to be called.
SpecIterFair ==
    SpecIter /\ WF_vars(\E order \in Orders(upm.map) : UIterNext(order))

\* ------------------ SpecTwin: two instances with different ceilings

\* The second instance and the value its last call returned.
Twin(self, r) == [self |-> self, ret |-> r]

\* The same call has been made on both instances, with outcomes r and r2;
\* a failed debug assertion is a panic or nothing, as in Proceeds, in each
\* of the two calls.
TwinLands(op, c, count, r, r2) ==
    /\ ~uiter.live
    /\ ulast' = UCall(op, c, count, r.zero_found)
    /\ \/ upm' = r.self /\ uret' = r.ret
       \/ r.zero_found /\ upm' = upm /\ uret' = Panicked
    /\ \/ twin' = Twin(r2.self, r2.ret)
       \/ r2.zero_found /\ twin' = Twin(twin.self, Panicked)
    /\ UNCHANGED <<uiter, yielded, nones>>
    /\ FrequencyMapIdle

TwinNew(ceiling, ceiling2) ==
    /\ ceiling # ceiling2
    /\ ~uiter.live
    /\ upm' = upm_new(ceiling)
    /\ twin' = Twin(upm_new(ceiling2), Unit)
    /\ ulast' = UCall("new", ceiling, 0, FALSE)
    /\ uret' = Unit
    /\ UNCHANGED <<uiter, yielded, nones>>
    /\ FrequencyMapIdle

\* The two instances have been built with different ceilings.
TwinsBuilt == VecLen(upm.vec) # VecLen(twin.self.vec)

TwinInsert(c, count) ==
    LET r == upm_insert(upm, c, count)
        r2 == upm_insert(twin.self, c, count)
    IN  /\ TwinsBuilt
        /\ UInBounds(r.self) /\ UInBounds(r2.self)
        /\ TwinLands("insert", c, count, r, r2)

TwinPush(c) ==
    LET r == upm_push(upm, c)
        r2 == upm_push(twin.self, c)
    IN  /\ TwinsBuilt
        /\ UInBounds(r.self) /\ UInBounds(r2.self)
        /\ TwinLands("push", c, 1, r, r2)

TwinPushN(c, count) ==
    LET r == upm_push_n(upm, c, count)
        r2 == upm_push_n(twin.self, c, count)
    IN  /\ TwinsBuilt
        /\ UInBounds(r.self) /\ UInBounds(r2.self)
        /\ TwinLands("push_n", c, count, r, r2)

TwinRemove(c) ==
    LET r == upm_remove(upm, c)
        r2 == upm_remove(twin.self, c)
    IN  /\ TwinsBuilt
        /\ TwinLands("remove", c, 0, r, r2)

TwinClear ==
    /\ TwinsBuilt
    /\ ~uiter.live
    /\ upm' = upm_clear(upm)
    /\ twin' = Twin(upm_clear(twin.self), Unit)
    /\ ulast' = UCall("clear", 0, 0, FALSE)
    /\ uret' = Unit
    /\ UNCHANGED <<uiter, yielded, nones>>
    /\ FrequencyMapIdle

NextTwin ==
    \/ \E ceiling, ceiling2 \in 0..NumChars : TwinNew(ceiling, ceiling2)
    \/ \E c \in Chars, count \in Counts : TwinInsert(c, count)
    \/ \E c \in Chars : TwinPush(c)
    \/ \E c \in Chars, count \in Counts : TwinPushN(c, count)
    \/ \E c \in Chars : TwinRemove(c)
    \/ TwinClear

SpecTwin == Init /\ [][NextTwin]_vars

\* ------------------------------------------------------------- properties

RECURSIVE SumPairs(_)
\* The sum of the counts of a set of (key, count) pairs.
SumPairs(P) ==
    IF P = {} THEN 0
    ELSE LET p == CHOOSE x \in P : TRUE
         IN  p[2] + SumPairs(P \ {p})

\* C1: in every state reachable by push, push_n, insert, remove,
\* remove_entry, retain, clear, drain and append, total() equals the sum of
\* the counts of the records iter() yields.
C1_TotalIsSum == total_(Self) = SumPairs(iter(Self))

\* An append has left two records whose counts do not cancel.
C1_Witness ==
    /\ last.op = "append"
    /\ len(Self) = 2
    /\ total_(Self) # 0
    /\ \E p \in iter(Self) : p[2] < 0

\* C2: no record is ever stored with a count of exactly 0: iter() never
\* yields a pair whose count is 0.
C2_NoZeroCount == \A p \in iter(Self) : p[2] # 0

\* C3: push(key) on a key whose count is -1 removes the record:
\* contains_key(key) is false, get(key) is 0, len() is one less and total()
\* one more than before.
C3_PushRemovesAtZero ==
    (last.op = "push" /\ get(last.pre, last.key) = -1) =>
        /\ ~contains_key(Self, last.key)
        /\ get(Self, last.key) = 0
        /\ len(Self) = len(last.pre) - 1
        /\ total_(Self) = total_(last.pre) + 1

\* C4: insert(key, count) returns Some(previous count) if a record existed
\* and None otherwise; afterwards get(key) = count, a record exists iff
\* count # 0, total() has changed by count - previous (previous 0 when
\* absent); insert(key, 0) on an absent key leaves the map unchanged.
C4_InsertSets ==
    last.op = "insert" =>
        LET pre      == last.pre
            key      == last.key
            count    == last.count
            previous == get(pre, key)
        IN  /\ ret = IF contains_key(pre, key) THEN Some(pre.map[key]) ELSE None
            /\ get(Self, key) = count
            /\ contains_key(Self, key) <=> (count # 0)
            /\ total_(Self) - total_(pre) = count - previous
            /\ (count = 0 /\ ~contains_key(pre, key)) => Self = pre

\* insert(key, 0) has removed a record of non-zero count and returned it.
C4_Witness ==
    /\ last.op = "insert"
    /\ last.count = 0
    /\ ret.tag = "Some"
    /\ ret.val # 0
    /\ ~contains_key(Self, last.key)
    /\ len(Self) = 1

\* C5: push_n(key, count) with count = 0 leaves the map unchanged; otherwise
\* the new count is old + count (old 0 if absent), the record is removed if
\* the sum is 0 and created or updated if not, and total() increases by
\* exactly count.
C5_PushNAdds ==
    last.op = "push_n" =>
        LET pre   == last.pre
            key   == last.key
            count == last.count
            sum   == get(pre, key) + count
        IN  IF count = 0
            THEN Self = pre
            ELSE /\ get(Self, key) = sum
                 /\ contains_key(Self, key) <=> (sum # 0)
                 /\ total_(Self) = total_(pre) + count

\* push_n has brought the count of an existing record to 0 and removed it.
C5_Witness ==
    /\ last.op = "push_n"
    /\ last.count # 0
    /\ contains_key(last.pre, last.key)
    /\ get(last.pre, last.key) = -last.count
    /\ ~contains_key(Self, last.key)

\* C6: for a key k without a record and n # 0, push_n(k, n) followed by
\* push_n(k, -n) leaves contains_key(k) false and get(k) = 0, with len() and
\* total() as before both calls.
C6_PushNCancels ==
    pending.state = "cancelled" =>
        /\ ~contains_key(Self, pending.key)
        /\ get(Self, pending.key) = 0
        /\ len(Self) = pending.len
        /\ total_(Self) = pending.total

\* push_n(k, n) then push_n(k, -n) have run on a map that holds another record.
C6_Witness ==
    /\ pending.state = "cancelled"
    /\ last.op = "push_n"
    /\ last.count = -pending.count
    /\ pending.len > 0
    /\ pending.total # 0

\* C7: remove(key) and remove_entry(key) delete an existing record of count
\* c, return c (and the key, for remove_entry), len() drops by 1 and total()
\* by c; without a record they return None and change nothing.
C7_RemoveDeletes ==
    last.op \in {"remove", "remove_entry"} =>
        LET pre == last.pre
            key == last.key
        IN  IF contains_key(pre, key)
            THEN LET c == pre.map[key]
                 IN  /\ ret = IF last.op = "remove" THEN Some(c) ELSE SomeEntry(key, c)
                     /\ ~contains_key(Self, key)
                     /\ len(Self) = len(pre) - 1
                     /\ total_(Self) = total_(pre) - c
            ELSE ret = None /\ Self = pre

\* remove_entry has deleted a record of negative count, another one staying.
C7_Witness ==
    /\ last.op = "remove_entry"
    /\ ret.tag = "SomeEntry"
    /\ ret.key = last.key
    /\ ret.val < 0
    /\ len(Self) = 1

\* What C8 says of a.append(&mut b): a0 and b0 are a and b before, a1 and
\* b1 after.
AppendMerged(a0, b0, a1, b1) ==
    /\ b1.map = EmptyMap
    /\ len(b1) = 0
    /\ total_(b1) = 0
    /\ is_empty(b1)
    /\ \A k \in Keys :
          /\ get(a1, k) = get(a0, k) + get(b0, k)
          /\ contains_key(a1, k) <=> (get(a0, k) + get(b0, k) # 0)
    /\ total_(a1) = total_(a0) + total_(b0)

\* C8: after a.append(&mut b), b has no records, b.len() = 0, b.total() = 0
\* and b.is_empty(); for every key k, a.get(k) = old a.get(k) + old
\* b.get(k), a holds a record for k exactly when that sum is non-zero, and
\* a.total() = old a.total() + old b.total().
C8_AppendMerges ==
    [][\A oth \in Instances(MaxOtherLen) : \A order \in Orders(oth.map) :
          AnyAppend(oth, order) =>
              AppendMerged(Self, oth, [map |-> map', total |-> total'], other')]_vars

\* C9: drain() yields exactly the (key, count) records held at the time of
\* the call, each once; afterwards the map has no records, len() = 0 and
\* total() = 0.
C9_DrainYieldsAll ==
    last.op = "drain" =>
        /\ ret.tag = "Drain"
        /\ {ret.items[i] : i \in 1..Len(ret.items)} = iter(last.pre)
        /\ Len(ret.items) = len(last.pre)
        /\ Self.map = EmptyMap
        /\ len(Self) = 0
        /\ total_(Self) = 0

\* drain() has yielded two records whose counts do not sum to 0.
C9_Witness ==
    /\ last.op = "drain"
    /\ Len(ret.items) = 2
    /\ total_(last.pre) # 0

\* C10: retain(pred) removes every record for which pred(key, count) is
\* false, keeps every other record with its count, and reduces total() by
\* exactly the sum of the counts of the removed records.
C10_RetainDrops ==
    last.op = "retain" =>
        LET pre     == last.pre
            f       == last.pred
            removed == {p \in iter(pre) : ~Apply(f, p[1], p[2])}
        IN  /\ \A p \in iter(pre) :
                  IF Apply(f, p[1], p[2])
                  THEN contains_key(Self, p[1]) /\ get(Self, p[1]) = p[2]
                  ELSE ~contains_key(Self, p[1])
            /\ iter(Self) \subseteq iter(pre)
            /\ total_(Self) = total_(pre) - SumPairs(removed)

\* retain has dropped a record of negative count and kept another record.
C10_Witness ==
    /\ last.op = "retain"
    /\ len(Self) = 1
    /\ \E p \in iter(last.pre) : p[2] < 0 /\ ~contains_key(Self, p[1])

\* C11: clear() from any reachable state yields the empty state (no records,
\* len() = 0, total() = 0, get(k) = 0 for every k), and a second clear()
\* yields the same state as the first.
C11_ClearEmpties ==
    last.op = "clear" =>
        /\ Self.map = EmptyMap
        /\ len(Self) = 0
        /\ total_(Self) = 0
        /\ \A k \in Keys : get(Self, k) = 0
        /\ clear(Self) = Self
        /\ clear(clear(last.pre)) = clear(last.pre)

\* clear() has emptied a map of two records and non-zero total.
C11_Witness ==
    /\ last.op = "clear"
    /\ len(last.pre) = 2
    /\ total_(last.pre) # 0
    /\ len(Self) = 0

\* C12: is_empty() is true exactly when total() = 0, whatever the number of
\* records: records {x: c, y: -c} give total() = 0, is_empty() and len() = 2.
C12_EmptyIffTotalZero == is_empty(Self) <=> (total = 0)

\* Two records of opposite non-zero counts: total() = 0, is_empty(), len() = 2.
C12_Witness ==
    /\ len(Self) = 2
    /\ \A p \in iter(Self) : p[2] # 0
    /\ total_(Self) = 0
    /\ is_empty(Self)

\* C13: is_empty() indicates whether the instance contains no records: it is
\* true if and only if len() = 0.
C13_EmptyIffNoRecords == is_empty(Self) <=> (len(Self) = 0)

\* C14: for every key k, contains_key(k) is true if and only if get(k) # 0.
C14_ContainsIffNonZero ==
    \A k \in Keys : contains_key(Self, k) <=> (get(Self, k) # 0)

\* The number of occurrences of key in the sequence keys.
Occurrences(keys, key) == Cardinality({i \in 1..Len(keys) : keys[i] = key})

RECURSIVE SumFor(_, _)
\* The sum of the counts paired with key in the sequence of pairs.
SumFor(pairs, key) ==
    IF pairs = <<>> THEN 0
    ELSE (IF Head(pairs)[1] = key THEN Head(pairs)[2] ELSE 0) + SumFor(Tail(pairs), key)

\* C15: an instance built from a sequence of keys (From<[K; N]> or
\* FromIterator<K>) has the records and total of new() followed by
\* push(key) for each key in order: get(k) is the number of occurrences of
\* k, len() the number of distinct keys, total() the sequence length.
C15_FromKeysIsPushes ==
    last.op \in {"from_keys", "from_iter"} =>
        /\ Self = PushEach(new, input)
        /\ \A k \in Keys : get(Self, k) = Occurrences(input, k)
        /\ len(Self) = Cardinality({input[i] : i \in 1..Len(input)})
        /\ total_(Self) = Len(input)

\* An array of three keys, one of them twice, has been counted.
C15_Witness ==
    /\ last.op = "from_keys"
    /\ Len(input) = 3
    /\ len(Self) = 2
    /\ \E k \in Keys : get(Self, k) = 2

\* C16: an instance built from an array of (key, count) pairs has the
\* records and total of new() followed by push_n(key, count) for each pair
\* in order: zero-count pairs create nothing, a key whose running sum
\* reaches 0 is removed and can be re-added by a later pair, total() is the
\* sum of all counts of the array.
C16_FromPairsIsPushNs ==
    last.op = "from_pairs" =>
        /\ Self = PushAll(new, input)
        /\ \A k \in Keys :
              /\ get(Self, k) = SumFor(input, k)
              /\ contains_key(Self, k) <=> (SumFor(input, k) # 0)
        /\ total_(Self) = SumPairs({<<i, input[i][2]>> : i \in 1..Len(input)})

\* (k, c), (k, -c), (k, d): k is removed by the second pair and re-added by
\* the third.
C16_Witness ==
    /\ last.op = "from_pairs"
    /\ Len(input) = 3
    /\ \E k \in Keys :
          /\ \A i \in 1..3 : input[i][1] = k
          /\ input[1][2] # 0
          /\ input[2][2] = -input[1][2]
          /\ input[3][2] # 0
          /\ contains_key(Self, k)
          /\ get(Self, k) = input[3][2]

\* C17: reserve, shrink_to and shrink_to_fit leave the set of records, every
\* count, len() and total() unchanged; only capacity() may change.
C17_CapacityCallsKeepRecords ==
    last.op \in {"reserve", "shrink_to", "shrink_to_fit"} =>
        /\ iter(Self) = iter(last.pre)
        /\ \A k \in Keys : get(Self, k) = get(last.pre, k)
        /\ len(Self) = len(last.pre)
        /\ total_(Self) = total_(last.pre)

\* reserve(additional) has made room beside a record the map holds.
C17_Witness ==
    /\ last.op = "reserve"
    /\ last.count > 0
    /\ len(Self) = 2
    /\ total_(Self) # 0
    /\ capacity_(capacity) >= len(Self) + last.count

\* The dense-tier indices that hold a non-zero count.
DenseRecords(self) == {ix \in DOMAIN self.vec : self.vec[ix] # 0}

\* C18: in every state reachable from new(ceiling) by insert, push, push_n,
\* remove and clear, len() is the number of dense-tier indices holding a
\* non-zero count plus the number of sparse-tier entries.
C18_LenCountsRecords ==
    upm_len(upm) = Cardinality(DenseRecords(upm)) + Cardinality(DOMAIN upm.map)

\* C19: in every state reachable by insert, push, push_n, remove and clear,
\* total() is the sum of the dense-tier counts plus the sum of the
\* sparse-tier counts.
C19_TotalIsSumOfTiers ==
    upm_total(upm) = SumOver(upm.vec, DOMAIN upm.vec) + SumCounts(upm.map)

\* push_n() has changed a count while each tier holds a record, the sparse
\* tier a negative count and the whole a positive total.
C19_Witness ==
    /\ ulast.op = "push_n"
    /\ ulast.count # 0
    /\ DenseRecords(upm) # {}
    /\ DOMAIN upm.map # {}
    /\ SumCounts(upm.map) < 0
    /\ upm_total(upm) > 0

\* C20: no sparse-tier entry holds the count 0, and so no insert, push or
\* push_n finds one where it asserts `0 != *v`.
C20_NoZeroSparseEntry ==
    /\ \A c \in DOMAIN upm.map : upm.map[c] # 0
    /\ ~ulast.zero_found


\* C21: push(c) on a code point whose count is -1, in either tier, removes
\* the record: afterwards contains_key(c) is false, get(c) is 0 and len() is
\* one less than before the call.
C21_PushRemovesAtMinusOne ==
    [][(ulast'.op = "push" /\ upm_get(upm, ulast'.c) = -1) =>
          /\ ~upm_contains_key(upm', ulast'.c)
          /\ upm_get(upm', ulast'.c) = 0
          /\ upm_len(upm') = upm_len(upm) - 1]_vars


\* Two code points hold counts that cancel and no other holds a count.
CancellingPair(self) ==
    \E c, d \in Chars :
       /\ c # d
       /\ upm_get(self, c) # 0
       /\ upm_get(self, d) = -upm_get(self, c)
       /\ \A o \in Chars \ {c, d} : upm_get(self, o) = 0

\* C22: is_empty() is true exactly when len() == 0, not when total() == 0: a
\* map in which one code point has count n and another -n has total() == 0
\* and is_empty() false.
C22_EmptyIffLenZero ==
    /\ upm_is_empty(upm) <=> (upm_len(upm) = 0)
    /\ CancellingPair(upm) => upm_total(upm) = 0 /\ ~upm_is_empty(upm)

\* One code point of each tier holds the largest count, with opposite signs.
C22_Witness ==
    /\ CancellingPair(upm)
    /\ DenseRecords(upm) # {}
    /\ DOMAIN upm.map # {}
    /\ \E c \in Chars : upm_get(upm, c) = MaxCount
    /\ upm_len(upm) = 2


\* The code points a full iteration has to yield.
Recorded(self) == {c \in Chars : upm_get(self, c) # 0}

YieldedChars == {yielded[i][1] : i \in 1..Len(yielded)}

\* C23: a full iteration yields exactly the code points c with get(c) != 0,
\* each exactly once and paired with get(c), and never a pair whose count
\* is 0.
C23_IterYieldsRecords ==
    /\ \A i \in 1..Len(yielded) :
          /\ yielded[i][2] # 0
          /\ yielded[i][2] = upm_get(upm, yielded[i][1])
    /\ \A i, j \in 1..Len(yielded) : i # j => yielded[i][1] # yielded[j][1]
    /\ nones > 0 => YieldedChars = Recorded(upm)


\* Whether a yielded code point lies below the ceiling.
Dense(c) == char_to_valid_index(c) < VecLen(upm.vec)

\* C24: the pairs for code points below the ceiling are yielded in strictly
\* increasing code-point order, and every dense-tier pair is yielded before
\* any sparse-tier pair.
C24_DenseAscendingThenSparse ==
    \A i, j \in 1..Len(yielded) :
       i < j =>
          /\ Dense(yielded[i][1]) /\ Dense(yielded[j][1])
                => yielded[i][1] < yielded[j][1]
          /\ Dense(yielded[j][1]) => Dense(yielded[i][1])

\* next() has yielded a dense-tier pair and then a sparse-tier pair.
C24_Witness ==
    /\ ulast.op = "next"
    /\ Len(yielded) = 2
    /\ Dense(yielded[1][1])
    /\ ~Dense(yielded[2][1])
    /\ uret = SomeEntry(yielded[2][1], yielded[2][2])

\* C25: once next() has returned None every later call of next() returns
\* None, whatever the tiers hold.
C25_Fused ==
    (ulast.op = "next" /\ nones > 0) => uret = None

\* next() has been called again after it returned None, on a map with
\* records in both tiers.
C25_Witness ==
    /\ ulast.op = "next"
    /\ nones >= 2
    /\ \E i \in 1..Len(yielded) : Dense(yielded[i][1])
    /\ \E i \in 1..Len(yielded) : ~Dense(yielded[i][1])


\* What insert(c, count) has to do between the instance before, a, and the
\* instance after, b, and return as r.
InsertContract(a, b, r, c, count) ==
    LET had == upm_contains_key(a, c)
        previous == upm_get(a, c)
    IN  /\ r = IF had THEN Some(previous) ELSE None
        /\ upm_get(b, c) = count
        /\ upm_contains_key(b, c) <=> (count # 0)
        /\ upm_len(b) = IF ~had /\ count # 0 THEN upm_len(a) + 1
                        ELSE IF had /\ count = 0 THEN upm_len(a) - 1
                        ELSE upm_len(a)
        /\ upm_total(b) = upm_total(a) + (count - previous)

\* C26: insert(c, count), for c in either tier, returns Some(previous count)
\* if c had a record and None otherwise; afterwards get(c) == count and
\* contains_key(c) == (count != 0); len() rises by 1 when a record is
\* created, falls by 1 when count == 0 removes a record and is otherwise
\* unchanged; total() changes by count - previous.
C26_InsertContract ==
    [][ulast'.op = "insert" =>
          InsertContract(upm, upm', uret', ulast'.c, ulast'.count)]_vars

\* What remove(c) has to do between the instance before, a, and the instance
\* after, b, and return as r.
RemoveContract(a, b, r, c) ==
    LET v == upm_get(a, c)
    IN  IF upm_contains_key(a, c)
        THEN /\ r = Some(v)
             /\ upm_get(b, c) = 0
             /\ upm_len(b) = upm_len(a) - 1
             /\ upm_total(b) = upm_total(a) - v
        ELSE /\ r = None
             /\ upm_len(b) = upm_len(a)
             /\ upm_total(b) = upm_total(a)
             /\ \A d \in Chars : upm_get(b, d) = upm_get(a, d)

\* C27: remove(c), for c in either tier: if c has a record with count v the
\* call returns Some(v), get(c) becomes 0, len() drops by 1 and total() drops
\* by v; if c has no record the call returns None and len(), total() and
\* every count are unchanged.
C27_RemoveContract ==
    [][ulast'.op = "remove" =>
          RemoveContract(upm, upm', uret', ulast'.c)]_vars

\* remove() has returned the negative count of a sparse-tier record while
\* the dense tier holds a record.
C27_Witness ==
    /\ ulast.op = "remove"
    /\ uret.tag = "Some" /\ uret.val < 0
    /\ ulast.c \notin DOMAIN upm.vec
    /\ ~upm_contains_key(upm, ulast.c)
    /\ DenseRecords(upm) # {}
    /\ upm_total(upm) > 0

\* What push_n(c, count) has to do between the instance before, a, and the
\* instance after, b.
PushNContract(a, b, c, count) ==
    LET had == upm_contains_key(a, c)
        sum == upm_get(a, c) + count
    IN  IF count = 0 THEN b = a
        ELSE /\ upm_get(b, c) = sum
             /\ upm_contains_key(b, c) <=> (sum # 0)
             /\ upm_len(b) = IF ~had /\ sum # 0 THEN upm_len(a) + 1
                             ELSE IF had /\ sum = 0 THEN upm_len(a) - 1
                             ELSE upm_len(a)
             /\ upm_total(b) = upm_total(a) + count

\* C28: push_n(c, count), for c in either tier: when count == 0 nothing
\* changes; otherwise get(c) becomes the old get(c) + count, c has a record
\* afterwards iff that sum is non-zero, len() moves by +1, -1 or 0
\* accordingly and total() rises by count.
C28_PushNContract ==
    [][ulast'.op = "push_n" =>
          /\ uret' = Unit
          /\ PushNContract(upm, upm', ulast'.c, ulast'.count)]_vars


\* C29: after every step of the same sequence of insert, push, push_n,
\* remove and clear calls on a FrequencyMap<char> and on a UnicodePointMap,
\* insert and remove have returned equal values and get(c), contains_key(c),
\* len() and total() are equal for every code point c.
C29_MirrorsFrequencyMap ==
    /\ last.op \in {"insert", "remove"} => uret = ret
    /\ \A c \in Chars :
          /\ upm_get(upm, c) = get(Self, c)
          /\ upm_contains_key(upm, c) = contains_key(Self, c)
    /\ upm_len(upm) = len(Self)
    /\ upm_total(upm) = total_(Self)


\* C30: new(ceiling) and default() give an empty map: the dense tier has as
\* many slots as the scalar value of the ceiling (clamped to 0x10FFFF), all
\* zero; the sparse tier is empty; len() == 0, total() == 0, is_empty() is
\* true, get(c) == 0 and contains_key(c) is false for every code point c,
\* and iter() yields nothing.
C30_NewIsEmpty ==
    ulast.op \in {"new", "default"} =>
        /\ VecLen(upm.vec) = Minimum(ulast.c, MAXIMUM_VALID_CHAR_VALUE)
        /\ DOMAIN upm.vec = 0..(VecLen(upm.vec) - 1)
        /\ \A ix \in DOMAIN upm.vec : upm.vec[ix] = 0
        /\ DOMAIN upm.map = {}
        /\ upm_len(upm) = 0
        /\ upm_total(upm) = 0
        /\ upm_is_empty(upm)
        /\ \A c \in Chars : upm_get(upm, c) = 0 /\ ~upm_contains_key(upm, c)
        /\ upm_next(upm, upm_iter(upm), <<>>).ret = None

\* default() has replaced the instance in a build with debug assertions.
C30_Witness ==
    /\ ulast.op = "default"
    /\ ulast.c = DEFAULT_CONTIGUOUS_CEILING_debug
    /\ VecLen(upm.vec) = DEFAULT_CONTIGUOUS_CEILING_debug
    /\ upm_is_empty(upm)



\* C31: in every state reachable from new(ceiling) by insert, push, push_n,
\* remove and clear, every key of the sparse tier has an index at or above
\* the length of the dense tier, so that the count of a code point below
\* the ceiling is held in the dense tier only.
C31_TierPlacement ==
    /\ DOMAIN upm.vec = 0..(VecLen(upm.vec) - 1)
    /\ \A c \in DOMAIN upm.map : char_to_valid_index(c) >= VecLen(upm.vec)
    /\ \A c \in Chars :
          char_to_valid_index(c) < VecLen(upm.vec) =>
              /\ c \notin DOMAIN upm.map
              /\ upm_get(upm, c) = upm.vec[char_to_valid_index(c)]

\* Both tiers hold a record.
C31_Witness ==
    /\ DenseRecords(upm) # {}
    /\ DOMAIN upm.map # {}



\* What clear() promises, between the instance before the call, a, and the
\* instance after, b.
ClearContract(a, b) ==
    /\ DOMAIN b.vec = DOMAIN a.vec
    /\ \A ix \in DOMAIN b.vec : b.vec[ix] = 0
    /\ DOMAIN b.map = {}
    /\ \A c \in Chars : upm_get(b, c) = 0 /\ ~upm_contains_key(b, c)
    /\ upm_len(b) = 0
    /\ upm_total(b) = 0
    /\ upm_is_empty(b)
    /\ upm_clear(b) = b

\* C32: clear(), from any reachable state, leaves every count of both tiers
\* at 0 with len() == 0, total() == 0 and is_empty() true, keeps the dense
\* tier at the length it was constructed with, and a second clear() changes
\* nothing.
C32_ClearContract ==
    [][ulast'.op = "clear" => ClearContract(upm, upm')]_vars

\* clear() has run on an instance whose dense tier has slots.
C32_Witness ==
    /\ ulast.op = "clear"
    /\ VecLen(upm.vec) > 0
    /\ upm_is_empty(upm)



\* C33: in every state reachable by insert, push, push_n and remove and for
\* every code point c of either tier, contains_key(c) is true iff
\* get(c) != 0, and map[c] is the value of get(c).
C33_ContainsIffNonZero ==
    \A c \in Chars :
        /\ upm_contains_key(upm, c) <=> (upm_get(upm, c) # 0)
        /\ upm_index(upm, c) = upm_get(upm, c)



\* C34: two UnicodePointMaps built with different ceilings and given the
\* same insert, push, push_n, remove and clear calls have returned the same
\* value from insert and remove and agree on get(c), contains_key(c),
\* len(), total() and is_empty() after every step.
C34_CeilingNotObservable ==
    /\ ulast.op \in {"insert", "remove"} => uret = twin.ret
    /\ \A c \in Chars :
          /\ upm_get(upm, c) = upm_get(twin.self, c)
          /\ upm_contains_key(upm, c) = upm_contains_key(twin.self, c)
    /\ upm_len(upm) = upm_len(twin.self)
    /\ upm_total(upm) = upm_total(twin.self)
    /\ upm_is_empty(upm) = upm_is_empty(twin.self)



\* C35: the usize counter len never underflows: in every state reachable by
\* insert, push, push_n, remove and clear, a call of insert, push_n or
\* remove that executes `self.len -= 1` starts with len >= 1.
C35_LenNeverUnderflows ==
    [][(ulast'.op \in {"insert", "push_n", "remove"} /\ upm'.len < upm.len) =>
          /\ upm.len >= 1
          /\ upm'.len = upm.len - 1]_vars

\* remove() has taken the last record away: len has gone from 1 to 0.
C35_Witness ==
    /\ ulast.op = "remove"
    /\ uret \notin {None, Panicked}
    /\ upm.len = 0



\* C36: from any state reachable by insert, push, push_n and remove, and
\* for any key k and any n, push_n(k, n) followed by push_n(k, -n) gives
\* back the records, the counts, len() and total() there were before.
C36_PushNRoundTrip ==
    \A k \in Keys, n \in Counts :
        LET back == push_n(push_n(Self, k, n), k, -n)
        IN  /\ DOMAIN back.map = DOMAIN Self.map
            /\ \A j \in Keys : get(back, j) = get(Self, j)
            /\ len(back) = len(Self)
            /\ total_(back) = total_(Self)



\* What a mutating call on the code point c leaves alone, between the
\* instance before the call, a, and the instance after, b: every other
\* code point, and the tier c does not belong to.
Frame(a, b, c) ==
    /\ \A d \in Chars \ {c} :
          /\ upm_get(b, d) = upm_get(a, d)
          /\ upm_contains_key(b, d) = upm_contains_key(a, d)
    /\ DOMAIN b.vec = DOMAIN a.vec
    /\ IF char_to_valid_index(c) < VecLen(a.vec)
       THEN b.map = a.map
       ELSE b.vec = a.vec

\* C37: insert, push, push_n or remove applied to the code point c leaves
\* get(d) and contains_key(d) as they were for every other code point d,
\* and a call dispatched to one tier leaves the other tier as it was.
C37_Frame ==
    [][ulast'.op \in {"insert", "push", "push_n", "remove"} =>
          Frame(upm, upm', ulast'.c)]_vars

\* push_n() has given a sparse code point a record while the dense tier
\* holds one too.
C37_Witness ==
    /\ ulast.op = "push_n"
    /\ uret = Unit
    /\ ~Dense(ulast.c)
    /\ upm_contains_key(upm, ulast.c)
    /\ DenseRecords(upm) # {}



\* The pairs yielded so far are no more than the slots of the dense tier
\* plus the entries of the sparse tier, and the dense scan index is within
\* the dense tier's length.
WithinTiers ==
    uiter.live =>
        /\ Len(yielded) <= VecLen(upm.vec) + Cardinality(DOMAIN upm.map)
        /\ uiter.vec_index.some => uiter.vec_index.ix <= VecLen(upm.vec)

\* C38: for a map with dense length D and S sparse entries, repeated calls
\* of next() on a fresh iterator eventually return None, after at most
\* D + S pairs have been yielded, and the dense scan index never exceeds D.
C38_IterationTerminates ==
    /\ []WithinTiers
    /\ uiter.live ~> (nones > 0 \/ ~uiter.live)

\* next() has returned None for the first time after yielding one pair
\* for every dense slot and every sparse entry, two or more in all.
C38_Witness ==
    /\ ulast.op = "next"
    /\ uret = None
    /\ nones = 1
    /\ Len(yielded) = VecLen(upm.vec) + Cardinality(DOMAIN upm.map)
    /\ Len(yielded) >= 2



\* The phase an iterator is in: 0 while the dense scan index is there,
\* 1 while the sparse tier's iterator is, 2 when neither is.
Phase(it) ==
    IF it.vec_index.some THEN 0
    ELSE IF it.map_iter.some THEN 1
    ELSE 2

\* `vec_index.is_none() || map_iter.is_none()`, the debug assertion at the
\* head of next().
OnePhase(it) == ~it.vec_index.some \/ ~it.map_iter.some

\* C40: at entry to every call of next() at most one of the dense scan
\* index and the sparse sub-iterator is active, and the phases only advance
\* from the dense scan to the sparse delegation to exhausted.
C40_PhasesAdvance ==
    [][ulast'.op = "next" =>
          /\ OnePhase(uiter)
          /\ OnePhase(uiter')
          /\ Phase(uiter') >= Phase(uiter)]_vars

\* An iterator is exhausted after yielding from the dense tier and then
\* from the sparse tier.
C40_Witness ==
    /\ uiter.live
    /\ Phase(uiter) = 2
    /\ ulast.op = "next"
    /\ Len(yielded) >= 2
    /\ Dense(yielded[1][1])
    /\ ~Dense(yielded[Len(yielded)][1])



\* C39: insert(c, count) moves total() by the mathematical value of
\* count - previous for every pair of counts of isize, those of opposite
\* sign next to the limits included: the difference does not overflow or
\* wrap around in isize before it is added to the i64 total. The calls
\* looked at are those whose exact new total is a value of i64.
C39_TotalMovesByDifference ==
    [][ulast'.op = "insert" =>
          LET exact == upm_total(upm) + (ulast'.count - upm_get(upm, ulast'.c))
          IN  exact \in I64 => upm_total(upm') = exact]_vars

====
